---- MODULE Spec2Model ----
(***************************************************************************)
(* Model of the two developer scripts of the repository:                   *)
(*   scripts/common/format.py   (clang-format driver)                      *)
(*   scripts/common/analyze.py  (cppcheck / clang-tidy / iwyu driver)      *)
(* File names are sequences of one-character strings, so that              *)
(* str.endswith is computed on characters.  A path is a sequence of names. *)
(***************************************************************************)
EXTENDS Integers, Sequences, FiniteSets, TLC

VARIABLES
    prog,           \* which script runs: "format", "analyze", or "walk"
    pc,             \* position in main()
    fs,             \* the directory tree on disk (a sequence of nodes)
    directory,      \* node walked by find_source_files (args.directory)
    source_files,   \* the list of enumerated source files
    args_tool,      \* analyze.py --tool
    args_check,     \* format.py --check
    tools_available,\* analyze.py: dict tool -> bool; format.py: the probe's result
    exit_code,      \* the value main() accumulates and returns
    idx,            \* number of files the current per-file loop has handled
    needing,        \* format.py: files_needing_format
    formatted_count,\* format.py: formatted_count
    issues_found,   \* analyze.py: issues_found of run_clang_tidy
    rets,           \* observation: step name -> value the step returned
    cppcheck_calls, \* observation: every cppcheck work invocation
    calls,          \* observation: every per-file child process dispatched
    printed,        \* observation: the report lines printed
    env             \* observation: what the steps found on disk

vars == <<prog, pc, fs, directory, source_files, args_tool, args_check,
          tools_available, exit_code, idx, needing, formatted_count,
          issues_found, rets, cppcheck_calls, calls, printed, env>>

runvars == <<args_tool, args_check, tools_available, exit_code, idx, needing,
             formatted_count, issues_found, rets, cppcheck_calls, calls,
             printed, env>>

(***************************************************************************)
(* Bounds                                                                  *)
(***************************************************************************)
MaxNodes == 3       \* entries below the top directory in a walked tree
MaxEntries == 2     \* entries below the top directory when a script runs
MaxRc == 2          \* child processes exit with a code in 0..MaxRc

(***************************************************************************)
(* Names on disk                                                           *)
(***************************************************************************)
n_build    == <<"b","u","i","l","d">>
n_external == <<"e","x","t","e","r","n","a","l">>
n_git      == <<".","g","i","t">>
n_sub      == <<"s","u","b">>
n_a_cpp    == <<"a",".","c","p","p">>
n_b_c      == <<"b",".","c">>
n_c_h      == <<"c",".","h">>
n_d_hpp    == <<"d",".","h","p","p">>
n_e_cc     == <<"e",".","c","c">>
n_f_cxx    == <<"f",".","c","x","x">>
n_g_txt    == <<"g",".","t","x","t">>
n_cpp      == <<"c","p","p">>

\* names a directory may carry / names a non-directory entry may carry
DirNames  == <<n_build, n_external, n_git, n_sub, n_a_cpp>>
FileNames == <<n_a_cpp, n_b_c, n_c_h, n_d_hpp, n_e_cc, n_f_cxx, n_g_txt, n_cpp, n_build>>

\* an empty Python dict
EmptyDict == [key \in {} |-> FALSE]

SeqRange(s) == {s[i] : i \in 1..Len(s)}

(***************************************************************************)
(* Directory trees.  Node 0 is the top directory (the working directory);  *)
(* node i >= 1 is t[i] = [parent, isDir, name].  Nodes are numbered so     *)
(* that parents come first, and the entries of one directory have          *)
(* different names.                                                        *)
(***************************************************************************)
Children(t, d) == {i \in 1..Len(t) : t[i].parent = d}

CanAdd(t, nd) ==
    /\ nd.parent = 0 \/ t[nd.parent].isDir
    /\ Len(t) > 0 => nd.parent >= t[Len(t)].parent
    /\ \A i \in Children(t, nd.parent) : t[i].name # nd.name

NewNodes(t) ==
    {[parent |-> p, isDir |-> TRUE, name |-> nm] :
        p \in 0..Len(t), nm \in SeqRange(DirNames)}
    \cup
    {[parent |-> p, isDir |-> FALSE, name |-> nm] :
        p \in 0..Len(t), nm \in SeqRange(FileNames)}

RECURSIVE Trees(_)
Trees(n) ==
    IF n = 0 THEN {<<>>}
    ELSE LET S == Trees(n - 1)
         IN  S \cup UNION {{Append(t, nd) : nd \in {x \in NewNodes(t) : CanAdd(t, x)}} :
                              t \in {s \in S : Len(s) = n - 1}}

DirNodes(t) == {0} \cup {i \in 1..Len(t) : t[i].isDir}

\* the path of node i from the top directory, as a sequence of names
RECURSIVE PathOf(_, _)
PathOf(t, i) == IF i = 0 THEN <<>> ELSE Append(PathOf(t, t[i].parent), t[i].name)

(***************************************************************************)
(* format.py: find_source_files                                            *)
(***************************************************************************)
extensions == <<  <<".","c","p","p">>, <<".","c">>, <<".","h">>,
                  <<".","h","p","p">>, <<".","c","c">>, <<".","c","x","x">>  >>

exclude_dirs == {n_build, n_external, n_git}

\* str.endswith
endswith(s, suffix) ==
    /\ Len(s) >= Len(suffix)
    /\ SubSeq(s, Len(s) - Len(suffix) + 1, Len(s)) = suffix

\* any(file.endswith(ext) for ext in exts)
endswith_any(s, exts) == \E k \in 1..Len(exts) : endswith(s, exts[k])

\* directory-iteration order: by node number
RECURSIVE SortedSeq(_)
SortedSeq(S) ==
    IF S = {} THEN <<>>
    ELSE LET m == CHOOSE x \in S : \A y \in S : x <= y
         IN  <<m>> \o SortedSeq(S \ {m})

RECURSIVE Concat(_)
Concat(ss) == IF ss = <<>> THEN <<>> ELSE Head(ss) \o Concat(Tail(ss))

\* the pruning left out
prune_dirs_none(t, dirs) == dirs

\* dirs[:] = [d for d in dirs if d not in ['build', 'external', '.git']]
prune_dirs(t, dirs) == SelectSeq(dirs, LAMBDA d : t[d].name \notin exclude_dirs)

\* the os.walk loop: the files of root that match, then the kept sub-directories
RECURSIVE walk_collect(_, _, _, _)
walk_collect(t, d, root, exts) ==
    LET entries == SortedSeq(Children(t, d))
        dirs    == prune_dirs(t, SelectSeq(entries, LAMBDA i : t[i].isDir))
        files   == SelectSeq(entries, LAMBDA i : ~t[i].isDir)
        kept    == SelectSeq(files, LAMBDA i : endswith_any(t[i].name, exts))
        here    == [k \in 1..Len(kept) |-> Append(root, t[kept[k]].name)]
        below   == [k \in 1..Len(dirs) |->
                       walk_collect(t, dirs[k], Append(root, t[dirs[k]].name), exts)]
    IN  here \o Concat(below)

find_source_files(t, d) == walk_collect(t, d, PathOf(t, d), extensions)

\* the state of a script that has not started
RunIdle ==
    /\ args_tool = "all"
    /\ args_check = FALSE
    /\ tools_available = EmptyDict
    /\ exit_code = 0
    /\ idx = 0
    /\ needing = <<>>
    /\ formatted_count = 0
    /\ issues_found = 0
    /\ rets = EmptyDict
    /\ cppcheck_calls = <<>>
    /\ calls = <<>>
    /\ printed = <<>>
    /\ env = [enumerated |-> FALSE, existing_dirs |-> {}, compile_commands |-> "unknown"]

(***************************************************************************)
(* Enumeration on its own: the tree is built entry by entry, and           *)
(* find_source_files is applied to any directory of any tree built.        *)
(***************************************************************************)
WalkInit ==
    /\ prog = "walk"
    /\ pc = "mkfs"
    /\ fs = <<>>
    /\ directory = 0
    /\ source_files = <<>>
    /\ RunIdle

\* the environment creates one more file or directory
MkEntry ==
    /\ prog = "walk" /\ pc = "mkfs"
    /\ Len(fs) < MaxNodes
    /\ \E nd \in {x \in NewNodes(fs) : CanAdd(fs, x)} : fs' = Append(fs, nd)
    /\ UNCHANGED <<prog, pc, directory, source_files, runvars>>

WalkCall ==
    /\ prog = "walk" /\ pc = "mkfs"
    /\ \E d \in DirNodes(fs) :
          /\ directory' = d
          /\ source_files' = find_source_files(fs, d)
    /\ pc' = "returned"
    /\ UNCHANGED <<prog, fs, runvars>>

WalkNext == MkEntry \/ WalkCall

SpecWalk == WalkInit /\ [][WalkNext]_vars

(***************************************************************************)
(* Child processes.  subprocess.run either raises (the process could not   *)
(* be spawned) or returns a result with a return code and captured output. *)
(* stdout is a sequence of words.                                          *)
(***************************************************************************)
ProbeOutcomes == {"exit0", "exitNonzero", "FileNotFoundError", "PermissionError"}

NotSpawned == [spawned |-> FALSE, returncode |-> 0, stdout |-> <<>>]

FormatResults ==
    {NotSpawned} \cup
    {[spawned |-> TRUE, returncode |-> r, stdout |-> <<>>] : r \in 0..MaxRc}

Say(text, file) == [text |-> text, file |-> file]

\* dict.get(key): None (falsy) for a missing key
Get(dict, key) == IF key \in DOMAIN dict THEN dict[key] ELSE FALSE

(***************************************************************************)
(* format.py                                                               *)
(***************************************************************************)
\* check_clang_format / check_tool: only FileNotFoundError is caught
probe_raises(outcome) == outcome \notin {"exit0", "exitNonzero", "FileNotFoundError"}

check_clang_format(outcome) == outcome = "exit0"

format_file(result, dry_run) ==
    IF ~result.spawned THEN FALSE
    ELSE IF dry_run THEN result.returncode # 0
    ELSE result.returncode = 0

\* return 0 on both branches
check_mode_exit_zero(files_needing_format) == 0

\* the return statements that end the --check branch of main
check_mode_exit(files_needing_format) ==
    IF files_needing_format # <<>> THEN 1 ELSE 0

\* the return statement that ends the apply branch of main
apply_mode_exit(count, total) == 0

\* what find_source_files(args.directory) can return, over the trees on disk
FormatFileLists ==
    {find_source_files(t, d) : <<t, d>> \in
         UNION {{<<t, d>> : d \in DirNodes(t)} : t \in Trees(MaxEntries)}}

FmtProbe ==
    /\ prog = "format" /\ pc = "probe"
    /\ \E o \in ProbeOutcomes :
          IF probe_raises(o)
          THEN /\ pc' = "uncaught"
               /\ UNCHANGED <<tools_available, printed, exit_code>>
          ELSE /\ tools_available' = ("clang-format" :> check_clang_format(o))
               /\ IF check_clang_format(o)
                  THEN /\ printed' = Append(printed, Say("Found clang-format", <<>>))
                       /\ pc' = "find"
                       /\ UNCHANGED exit_code
                  ELSE /\ printed' = Append(printed, Say("ERROR: clang-format not found!", <<>>))
                       /\ exit_code' = 1
                       /\ pc' = "done"
    /\ UNCHANGED <<prog, fs, directory, source_files, args_tool, args_check, idx,
                   needing, formatted_count, issues_found, rets, cppcheck_calls,
                   calls, env>>

FmtFind ==
    /\ prog = "format" /\ pc = "find"
    /\ \E found \in FormatFileLists : source_files' = found
    /\ env' = [env EXCEPT !.enumerated = TRUE]
    /\ idx' = 0
    /\ IF source_files' = <<>>
       THEN /\ printed' = Append(printed, Say("No source files found.", <<>>))
            /\ exit_code' = 0
            /\ pc' = "done"
       ELSE /\ printed' = Append(printed, Say("Found source files.", <<>>))
            /\ pc' = IF args_check THEN "check_loop" ELSE "apply_loop"
            /\ UNCHANGED exit_code
    /\ UNCHANGED <<prog, fs, directory, args_tool, args_check, tools_available,
                   needing, formatted_count, issues_found, rets, cppcheck_calls,
                   calls>>

FmtCheckFile ==
    /\ prog = "format" /\ pc = "check_loop"
    /\ idx < Len(source_files)
    /\ \E r \in FormatResults :
          LET f    == source_files[idx + 1]
              need == format_file(r, TRUE)
          IN  /\ calls' = Append(calls, [exe |-> "clang-format", mode |-> "--dry-run",
                                         file |-> f, result |-> r])
              /\ printed' = printed
                     \o (IF r.spawned THEN <<>> ELSE <<Say("Error formatting", f)>>)
                     \o <<Say(IF need THEN "NEEDS FORMATTING" ELSE "OK", f)>>
              /\ needing' = IF need THEN Append(needing, f) ELSE needing
    /\ idx' = idx + 1
    /\ UNCHANGED <<prog, pc, fs, directory, source_files, args_tool, args_check,
                   tools_available, exit_code, formatted_count, issues_found,
                   rets, cppcheck_calls, env>>

FmtCheckEnd ==
    /\ prog = "format" /\ pc = "check_loop"
    /\ idx = Len(source_files)
    /\ printed' = Append(printed,
                         Say(IF needing # <<>> THEN "files need formatting."
                             ELSE "All files are properly formatted!", <<>>))
    /\ exit_code' = check_mode_exit(needing)
    /\ pc' = "done"
    /\ UNCHANGED <<prog, fs, directory, source_files, args_tool, args_check,
                   tools_available, idx, needing, formatted_count, issues_found,
                   rets, cppcheck_calls, calls, env>>

FmtApplyFile ==
    /\ prog = "format" /\ pc = "apply_loop"
    /\ idx < Len(source_files)
    /\ \E r \in FormatResults :
          LET f  == source_files[idx + 1]
              ok == format_file(r, FALSE)
          IN  /\ calls' = Append(calls, [exe |-> "clang-format", mode |-> "-i",
                                         file |-> f, result |-> r])
              /\ printed' = printed
                     \o (IF r.spawned THEN <<>> ELSE <<Say("Error formatting", f)>>)
                     \o <<Say(IF ok THEN "FORMATTED" ELSE "ERROR", f)>>
              /\ formatted_count' = IF ok THEN formatted_count + 1 ELSE formatted_count
    /\ idx' = idx + 1
    /\ UNCHANGED <<prog, pc, fs, directory, source_files, args_tool, args_check,
                   tools_available, exit_code, needing, issues_found,
                   rets, cppcheck_calls, env>>

FmtApplyEnd ==
    /\ prog = "format" /\ pc = "apply_loop"
    /\ idx = Len(source_files)
    /\ printed' = Append(printed, Say("Formatted files.", <<>>))
    /\ exit_code' = apply_mode_exit(formatted_count, Len(source_files))
    /\ pc' = "done"
    /\ UNCHANGED <<prog, fs, directory, source_files, args_tool, args_check,
                   tools_available, idx, needing, formatted_count, issues_found,
                   rets, cppcheck_calls, calls, env>>

FormatNext ==
    \/ FmtProbe \/ FmtFind
    \/ FmtCheckFile \/ FmtCheckEnd
    \/ FmtApplyFile \/ FmtApplyEnd

FormatInit ==
    /\ prog = "format"
    /\ pc = "probe"
    /\ fs = <<>> /\ directory = 0 /\ source_files = <<>>
    /\ args_tool = "all"
    /\ args_check \in BOOLEAN
    /\ tools_available = EmptyDict
    /\ exit_code = 0
    /\ idx = 0
    /\ needing = <<>>
    /\ formatted_count = 0
    /\ issues_found = 0
    /\ rets = EmptyDict
    /\ cppcheck_calls = <<>>
    /\ calls = <<>>
    /\ printed = <<>>
    /\ env = [enumerated |-> FALSE, existing_dirs |-> {}, compile_commands |-> "unknown"]

SpecFormat == FormatInit /\ [][FormatNext]_vars

(***************************************************************************)
(* analyze.py                                                              *)
(***************************************************************************)
ToolChoices == {"cppcheck", "clang-tidy", "iwyu", "all"}

source_dirs == <<"SilicaEngine/src", "SilicaEngine/include", "Fractura/src">>

tidy_extensions == <<  <<".","c","p","p">>, <<".","c","c">>, <<".","c","x","x">>  >>

check_tool(outcome) == outcome = "exit0"

\* args.tool in [name, 'all']
selected(tool, name) == tool \in {name, "all"}

\* exit_code |= ret, on non-negative integers
RECURSIVE BitOr(_, _)
BitOr(a, b) ==
    IF a = 0 THEN b
    ELSE IF b = 0 THEN a
    ELSE (IF a % 2 = 1 \/ b % 2 = 1 THEN 1 ELSE 0) + 2 * BitOr(a \div 2, b \div 2)

\* exit_code = ret in place of exit_code |= ret
accumulate_assign(code, ret) == ret

accumulate(code, ret) == BitOr(code, ret)

\* one probe of main: tools_available[key] = check_tool(...), when selected
Probe(name, key, next) ==
    /\ IF selected(args_tool, name)
       THEN \E o \in ProbeOutcomes :
               IF probe_raises(o)
               THEN /\ pc' = "uncaught"
                    /\ UNCHANGED <<tools_available, printed>>
               ELSE /\ tools_available' = (key :> check_tool(o)) @@ tools_available
                    /\ printed' = Append(printed,
                           Say(IF check_tool(o) THEN "Found tool" ELSE "tool not found", <<>>))
                    /\ pc' = next
       ELSE /\ pc' = next
            /\ UNCHANGED <<tools_available, printed>>
    /\ UNCHANGED <<prog, fs, directory, source_files, args_tool, args_check,
                   exit_code, idx, needing, formatted_count, issues_found, rets,
                   cppcheck_calls, calls, env>>

ProbeCppcheck == prog = "analyze" /\ pc = "probe_cppcheck"
                    /\ Probe("cppcheck", "cppcheck", "probe_clang_tidy")

ProbeClangTidy == prog = "analyze" /\ pc = "probe_clang_tidy"
                    /\ Probe("clang-tidy", "clang-tidy", "probe_iwyu")

ProbeIwyu == prog = "analyze" /\ pc = "probe_iwyu"
                    /\ Probe("iwyu", "iwyu", "cppcheck")

(***************************************************************************)
(* run_cppcheck                                                            *)
(***************************************************************************)
CppcheckResults ==
    {NotSpawned} \cup
    {[spawned |-> TRUE, returncode |-> r, stdout |-> out] :
        r \in 0..MaxRc, out \in {<<>>, <<"a.cpp:1:", "style:", "unused">>}}

\* the os.path.exists test left out
cppcheck_operands_all(existing) == source_dirs

\* the directories appended to cmd
cppcheck_operands(existing) == SelectSeq(source_dirs, LAMBDA d : d \in existing)

\* the command lines run for one call of run_cppcheck
cppcheck_invocations(existing) == << cppcheck_operands(existing) >>

run_cppcheck_return(result) == IF result.spawned THEN result.returncode ELSE 1

RunCppcheck ==
    /\ prog = "analyze" /\ pc = "cppcheck"
    /\ IF selected(args_tool, "cppcheck") /\ Get(tools_available, "cppcheck")
       THEN \E existing \in SUBSET SeqRange(source_dirs) : \E r \in CppcheckResults :
               LET cmds == cppcheck_invocations(existing)
               IN  /\ env' = [env EXCEPT !.existing_dirs = existing]
                   /\ cppcheck_calls' = cppcheck_calls \o
                          [k \in 1..Len(cmds) |-> [operands |-> cmds[k], result |-> r]]
                   /\ printed' = Append(printed,
                          Say(IF ~r.spawned THEN "Error running cppcheck"
                              ELSE IF r.stdout # <<>> THEN "Issues found:"
                              ELSE "No issues found by cppcheck!", <<>>))
                   /\ rets' = ("cppcheck" :> run_cppcheck_return(r)) @@ rets
                   /\ exit_code' = accumulate(exit_code, run_cppcheck_return(r))
       ELSE UNCHANGED <<env, cppcheck_calls, printed, rets, exit_code>>
    /\ pc' = "clang_tidy"
    /\ UNCHANGED <<prog, fs, directory, source_files, args_tool, args_check,
                   tools_available, idx, needing, formatted_count, issues_found,
                   calls>>

(***************************************************************************)
(* run_clang_tidy                                                          *)
(***************************************************************************)
tidy_warning_text == <<"a.cpp:3:", "warning:", "unused", "variable">>
tidy_error_text   == <<"1", "error", "generated.">>

\* clean; warnings; warnings treated as errors; compiler error
TidyResults ==
    { NotSpawned,
      [spawned |-> TRUE, returncode |-> 0, stdout |-> <<>>],
      [spawned |-> TRUE, returncode |-> 0, stdout |-> tidy_warning_text],
      [spawned |-> TRUE, returncode |-> 1, stdout |-> tidy_warning_text],
      [spawned |-> TRUE, returncode |-> 1, stdout |-> tidy_error_text] }

\* 'warning:' in result.stdout
Contains(out, word) == \E k \in 1..Len(out) : out[k] = word

\* result.stdout and 'warning:' in result.stdout
tidy_reports_issue(result) ==
    result.spawned /\ result.stdout # <<>> /\ Contains(result.stdout, "warning:")

\* the os.path.exists test left out
compile_commands_unchecked(exists) == FALSE

\* not os.path.exists(compile_commands)
compile_commands_missing(exists) == ~exists

\* the return statements of run_clang_tidy
tidy_return_missing == 1
tidy_return_no_files == 0
tidy_return_end(issues) == 0

clang_tidy_source_files(t) == walk_collect(t, 0, <<>>, tidy_extensions)

\* what the walk of '.' can find, over the trees on disk
TidyFileLists == {clang_tidy_source_files(t) : t \in Trees(MaxEntries)}

RunClangTidy ==
    /\ prog = "analyze" /\ pc = "clang_tidy"
    /\ IF selected(args_tool, "clang-tidy") /\ Get(tools_available, "clang-tidy")
       THEN \E exists \in BOOLEAN :
               /\ IF compile_commands_missing(exists)
                  THEN /\ env' = [env EXCEPT !.compile_commands =
                                      IF exists THEN "present" ELSE "absent"]
                       /\ printed' = Append(printed, Say("ERROR: compile_commands.json not found!", <<>>))
                       /\ rets' = ("clang-tidy" :> tidy_return_missing) @@ rets
                       /\ exit_code' = accumulate(exit_code, tidy_return_missing)
                       /\ pc' = "iwyu"
                       /\ UNCHANGED source_files
                  ELSE /\ env' = [env EXCEPT !.enumerated = TRUE,
                                      !.compile_commands =
                                           IF exists THEN "present" ELSE "absent"]
                       /\ \E found \in TidyFileLists : source_files' = found
                       /\ IF source_files' = <<>>
                          THEN /\ printed' = Append(printed, Say("No source files found!", <<>>))
                               /\ rets' = ("clang-tidy" :> tidy_return_no_files) @@ rets
                               /\ exit_code' = accumulate(exit_code, tidy_return_no_files)
                               /\ pc' = "iwyu"
                          ELSE /\ printed' = Append(printed, Say("Analyzing source files...", <<>>))
                               /\ pc' = "clang_tidy_loop"
                               /\ UNCHANGED <<rets, exit_code>>
       ELSE /\ pc' = "iwyu"
            /\ UNCHANGED <<env, printed, rets, exit_code, source_files>>
    /\ idx' = 0
    /\ issues_found' = 0
    /\ UNCHANGED <<prog, fs, directory, args_tool, args_check, tools_available,
                   needing, formatted_count, cppcheck_calls, calls>>

TidyFile ==
    /\ prog = "analyze" /\ pc = "clang_tidy_loop"
    /\ idx < Len(source_files)
    /\ \E r \in TidyResults :
          LET f == source_files[idx + 1]
          IN  /\ calls' = Append(calls, [exe |-> "clang-tidy", mode |-> "-p",
                                         file |-> f, result |-> r])
              /\ printed' = printed
                     \o (IF r.spawned THEN <<>> ELSE <<Say("Error analyzing", f)>>)
                     \o (IF tidy_reports_issue(r) THEN <<Say("Issues in", f)>> ELSE <<>>)
              /\ issues_found' = IF tidy_reports_issue(r) THEN issues_found + 1
                                 ELSE issues_found
    /\ idx' = idx + 1
    /\ UNCHANGED <<prog, pc, fs, directory, source_files, args_tool, args_check,
                   tools_available, exit_code, needing, formatted_count, rets,
                   cppcheck_calls, env>>

TidyEnd ==
    /\ prog = "analyze" /\ pc = "clang_tidy_loop"
    /\ idx = Len(source_files)
    /\ printed' = Append(printed,
                         Say(IF issues_found = 0 THEN "No issues found by clang-tidy!"
                             ELSE "clang-tidy found issues in files.", <<>>))
    /\ rets' = ("clang-tidy" :> tidy_return_end(issues_found)) @@ rets
    /\ exit_code' = accumulate(exit_code, tidy_return_end(issues_found))
    /\ pc' = "iwyu"
    /\ UNCHANGED <<prog, fs, directory, source_files, args_tool, args_check,
                   tools_available, idx, needing, formatted_count, issues_found,
                   cppcheck_calls, calls, env>>

(***************************************************************************)
(* run_include_what_you_use, and the end of main                           *)
(***************************************************************************)
run_include_what_you_use == 0

\* the condition under which main calls run_include_what_you_use
iwyu_guard(tool, available) == selected(tool, "iwyu")

RunIwyu ==
    /\ prog = "analyze" /\ pc = "iwyu"
    /\ IF iwyu_guard(args_tool, tools_available)
       THEN /\ printed' = Append(printed, Say("Running include-what-you-use...", <<>>))
            /\ rets' = ("iwyu" :> run_include_what_you_use) @@ rets
            /\ exit_code' = accumulate(exit_code, run_include_what_you_use)
       ELSE UNCHANGED <<printed, rets, exit_code>>
    /\ pc' = "report"
    /\ UNCHANGED <<prog, fs, directory, source_files, args_tool, args_check,
                   tools_available, idx, needing, formatted_count, issues_found,
                   cppcheck_calls, calls, env>>

Report ==
    /\ prog = "analyze" /\ pc = "report"
    /\ printed' = Append(printed, Say("Static analysis completed!", <<>>))
    /\ pc' = "done"
    /\ UNCHANGED <<prog, fs, directory, source_files, args_tool, args_check,
                   tools_available, exit_code, idx, needing, formatted_count,
                   issues_found, rets, cppcheck_calls, calls, env>>

AnalyzeNext ==
    \/ ProbeCppcheck \/ ProbeClangTidy \/ ProbeIwyu
    \/ RunCppcheck
    \/ RunClangTidy \/ TidyFile \/ TidyEnd
    \/ RunIwyu
    \/ Report

AnalyzeInit ==
    /\ prog = "analyze"
    /\ pc = "probe_cppcheck"
    /\ fs = <<>> /\ directory = 0 /\ source_files = <<>>
    /\ args_tool \in ToolChoices
    /\ args_check = FALSE
    /\ tools_available = EmptyDict
    /\ exit_code = 0
    /\ idx = 0
    /\ needing = <<>>
    /\ formatted_count = 0
    /\ issues_found = 0
    /\ rets = EmptyDict
    /\ cppcheck_calls = <<>>
    /\ calls = <<>>
    /\ printed = <<>>
    /\ env = [enumerated |-> FALSE, existing_dirs |-> {}, compile_commands |-> "unknown"]

SpecAnalyze == AnalyzeInit /\ [][AnalyzeNext]_vars

(***************************************************************************)
(* Both entry points                                                       *)
(***************************************************************************)
Init == FormatInit \/ AnalyzeInit

Next == FormatNext \/ AnalyzeNext

Spec == Init /\ [][Next]_vars

(***************************************************************************)
(* Properties                                                              *)
(***************************************************************************)
Steps == {"cppcheck", "clang-tidy", "iwyu"}

Bit(n, k) == (n \div (2 ^ k)) % 2

CallsTo(exe) == {k \in 1..Len(calls) : calls[k].exe = exe}

Printed(text, file) == \E k \in 1..Len(printed) : printed[k] = Say(text, file)

AnalyzeDone == prog = "analyze" /\ pc = "done"
FormatDone  == prog = "format" /\ pc = "done"

\* C1: the value main() of analyze.py returns is, bit by bit, the OR of the
\* values returned by the steps that ran; only selected steps run; and the
\* value is 0 when no step ran or every step that ran returned 0.
C1_ExitCodeIsOrOfSteps ==
    AnalyzeDone =>
        /\ DOMAIN rets \subseteq {s \in Steps : selected(args_tool, s)}
        /\ exit_code \in 0..(2 ^ (MaxRc + 1) - 1)
        /\ \A k \in 0..MaxRc :
              Bit(exit_code, k) = 1 <=> \E s \in DOMAIN rets : Bit(rets[s], k) = 1
        /\ (\A s \in DOMAIN rets : rets[s] = 0) => exit_code = 0

C1_Witness ==
    /\ AnalyzeDone
    /\ DOMAIN rets = Steps
    /\ rets["cppcheck"] = 2 /\ rets["clang-tidy"] = 1
    /\ exit_code = 3

FormatOk(k)    == calls[k].result.spawned /\ calls[k].result.returncode = 0
NonZeroExit(k) == calls[k].result.spawned /\ calls[k].result.returncode # 0

ApplyDone ==
    FormatDone /\ ~args_check /\ Get(tools_available, "clang-format")

CheckDone ==
    FormatDone /\ args_check /\ Get(tools_available, "clang-format")

\* C2: in apply mode with at least one enumerated file, format.py exits 0 if
\* every file was formatted without error and 1 otherwise.
C2_ApplyModeExitCode ==
    (ApplyDone /\ source_files # <<>>) =>
        exit_code = IF \A k \in CallsTo("clang-format") : FormatOk(k) THEN 0 ELSE 1

FilesNeeding == {k \in CallsTo("clang-format") : NonZeroExit(k)}

LinesSaying(text) == {k \in 1..Len(printed) : printed[k].text = text}

EveryFileDispatchedOnce(mode) ==
    /\ Len(calls) = Len(source_files)
    /\ \A k \in 1..Len(calls) :
          calls[k].file = source_files[k] /\ calls[k].mode = mode

CheckModeOutcome ==
    /\ EveryFileDispatchedOnce("--dry-run")
    /\ exit_code = IF FilesNeeding # {} THEN 1 ELSE 0
    /\ Len(needing) = Cardinality(FilesNeeding)
    /\ Cardinality(LinesSaying("NEEDS FORMATTING")) = Cardinality(FilesNeeding)

\* C3 as stated: in check mode, for every set of enumerated files, format.py
\* exits 1 iff some dry run returned non-zero, and otherwise exits 0 after
\* printing 'All files are properly formatted'; the number of files reported
\* as needing formatting is the number of non-zero dry runs.
C3_AsStated ==
    CheckDone =>
        /\ CheckModeOutcome
        /\ exit_code = 0 => Printed("All files are properly formatted!", <<>>)

\* C3 as amended: the same, except that when no file is enumerated the run
\* exits 0 after printing 'No source files found.' and prints no
\* 'All files are properly formatted' report.
C3_CheckModeExitCode ==
    CheckDone =>
        /\ CheckModeOutcome
        /\ (exit_code = 0 /\ source_files # <<>>)
              => Printed("All files are properly formatted!", <<>>)
        /\ source_files = <<>> =>
              /\ exit_code = 0
              /\ Printed("No source files found.", <<>>)
              /\ ~Printed("All files are properly formatted!", <<>>)

C3_Witness ==
    /\ CheckDone
    /\ Len(calls) = 2
    /\ NonZeroExit(1) /\ FormatOk(2)
    /\ exit_code = 1

Ran(step) == step \in DOMAIN rets

\* C4: when clang-tidy is selected and available and compile_commands.json is
\* absent, the clang-tidy step returns non-zero without enumerating or
\* dispatching any file, the exit code is non-zero, and cppcheck and iwyu run
\* as they would otherwise: each runs iff its own condition holds, and
\* cppcheck's return value is the one its own child process determines.
C4_MissingCompileCommands ==
    (prog = "analyze" /\ env.compile_commands = "absent") =>
        /\ Ran("clang-tidy") /\ rets["clang-tidy"] # 0
        /\ ~env.enumerated
        /\ CallsTo("clang-tidy") = {}
        /\ exit_code # 0
        /\ Ran("cppcheck") <=>
              (selected(args_tool, "cppcheck") /\ Get(tools_available, "cppcheck"))
        /\ Ran("cppcheck") =>
              /\ Len(cppcheck_calls) = 1
              /\ rets["cppcheck"] = IF cppcheck_calls[1].result.spawned
                                    THEN cppcheck_calls[1].result.returncode ELSE 1
              /\ \A k \in 0..MaxRc : Bit(rets["cppcheck"], k) = 1 => Bit(exit_code, k) = 1
        /\ pc = "done" => (Ran("iwyu") <=> selected(args_tool, "iwyu"))

C4_Witness ==
    /\ AnalyzeDone
    /\ args_tool = "all"
    /\ env.compile_commands = "absent"
    /\ Ran("cppcheck") /\ rets["cppcheck"] = 2
    /\ Ran("iwyu")
    /\ exit_code = 3

\* C5: no failure of a probe or of a tool step ends an analyzer run as an
\* uncaught error before the final report.
C5_NoUncaughtError ==
    prog = "analyze" => pc # "uncaught"

ProbedAbsent(tool) == tool \in DOMAIN tools_available /\ ~tools_available[tool]

\* C6: a tool's work step runs only if its probe returned present earlier in
\* the run; an absent formatter means nothing is enumerated or dispatched and
\* exit code 1; an absent analyzer tool contributes nothing to the exit code.
C6_WorkOnlyIfProbedPresent ==
    /\ \A s \in Steps : Ran(s) => Get(tools_available, s)
    /\ cppcheck_calls # <<>> => Get(tools_available, "cppcheck")
    /\ \A exe \in {"clang-tidy", "clang-format"} :
          CallsTo(exe) # {} => Get(tools_available, exe)
    /\ (prog = "format" /\ ProbedAbsent("clang-format")) =>
          /\ pc = "done" /\ exit_code = 1
          /\ ~env.enumerated /\ calls = <<>>
    /\ AnalyzeDone =>
          \A k \in 0..MaxRc :
             Bit(exit_code, k) = 1 <=>
                \E s \in Steps : Ran(s) /\ ~ProbedAbsent(s) /\ Bit(rets[s], k) = 1

ReportedClean(file) ==
    \/ Printed("OK", file)
    \/ Printed("FORMATTED", file)

\* C7: in every per-file loop a file whose child process could not be spawned
\* is counted as a failure of that file, never as a clean or successful one,
\* and every enumerated file is dispatched exactly once.
C7_SpawnFailureIsPerFileFailure ==
    /\ \A k \in 1..Len(calls) :
          ~calls[k].result.spawned =>
             /\ ~ReportedClean(calls[k].file)
             /\ calls[k].exe = "clang-tidy" => ~Printed("No issues found by clang-tidy!", <<>>)
    /\ \A k \in 1..Len(calls) : calls[k].file = source_files[k]
    /\ (pc = "done" /\ calls # <<>>) => Len(calls) = Len(source_files)

CppcheckFindings ==
    \E k \in 1..Len(cppcheck_calls) :
       /\ cppcheck_calls[k].result.spawned
       /\ \/ cppcheck_calls[k].result.returncode # 0
          \/ cppcheck_calls[k].result.stdout # <<>>

TidyFindings ==
    \E k \in CallsTo("clang-tidy") :
       /\ calls[k].result.spawned
       /\ \/ calls[k].result.returncode # 0
          \/ Contains(calls[k].result.stdout, "warning:")

\* C8: a run in which cppcheck or clang-tidy ran and reported findings (a
\* non-zero exit code or warnings in its output) ends with a non-zero exit code.
C8_FindingsInExitCode ==
    (AnalyzeDone /\ (CppcheckFindings \/ TidyFindings)) => exit_code # 0

(***************************************************************************)
(* Enumeration, stated on the tree rather than by the traversal            *)
(***************************************************************************)
IncludeExtensions ==
    { <<".","c","p","p">>, <<".","c">>, <<".","h">>,
      <<".","h","p","p">>, <<".","c","c">>, <<".","c","x","x">> }

ExcludedNames == {n_build, n_external, n_git}

HasIncludeExtension(name) ==
    \E k \in 0..Len(name) : SubSeq(name, k + 1, Len(name)) \in IncludeExtensions

\* node i lies somewhere below directory d
RECURSIVE IsUnder(_, _, _)
IsUnder(t, i, d) ==
    i # 0 /\ (t[i].parent = d \/ IsUnder(t, t[i].parent, d))

\* some directory on the path, from component `from` on, has an excluded name
InExcludedDir(path, from) ==
    \E k \in from..(Len(path) - 1) : path[k] \in ExcludedNames

CandidateFiles ==
    {i \in 1..Len(fs) :
        ~fs[i].isDir /\ IsUnder(fs, i, directory) /\ HasIncludeExtension(fs[i].name)}

NoDuplicates(seq) ==
    \A j, k \in 1..Len(seq) : seq[j] = seq[k] => j = k

Returned == prog = "walk" /\ pc = "returned"

\* C9 as stated: find_source_files(root) returns exactly the files under
\* root with an include extension that lie in no directory named build,
\* external or .git; no returned path lies inside a directory with such a
\* name; no path is returned twice.
C9_AsStated ==
    Returned =>
        /\ SeqRange(source_files) =
              {PathOf(fs, i) : i \in {c \in CandidateFiles : ~InExcludedDir(PathOf(fs, c), 1)}}
        /\ \A k \in 1..Len(source_files) : ~InExcludedDir(source_files[k], 1)
        /\ NoDuplicates(source_files)

\* C9 as amended: the excluded names are tested on the directories below
\* root only; root itself and the directories above it may carry such a name.
C9_FindSourceFiles ==
    Returned =>
        LET below == Len(PathOf(fs, directory)) + 1
        IN  /\ SeqRange(source_files) =
                  {PathOf(fs, i) : i \in {c \in CandidateFiles :
                                             ~InExcludedDir(PathOf(fs, c), below)}}
            /\ \A k \in 1..Len(source_files) : ~InExcludedDir(source_files[k], below)
            /\ NoDuplicates(source_files)

C9_Witness ==
    /\ Returned
    /\ source_files # <<>>
    /\ \E c \in CandidateFiles :
          InExcludedDir(PathOf(fs, c), Len(PathOf(fs, directory)) + 1)

(***************************************************************************)
(* cppcheck invocations                                                    *)
(***************************************************************************)
OperandsPassed ==
    UNION {SeqRange(cppcheck_calls[k].operands) : k \in 1..Len(cppcheck_calls)}

\* C10 as stated: cppcheck is invoked once per existing source directory, a
\* directory that does not exist is never passed, and there is no invocation
\* when none exists.
C10_AsStated ==
    (prog = "analyze" /\ Ran("cppcheck")) =>
        /\ Len(cppcheck_calls) = Cardinality(env.existing_dirs)
        /\ OperandsPassed \subseteq env.existing_dirs
        /\ env.existing_dirs = {} => cppcheck_calls = <<>>

\* C10 as amended: one run of the cppcheck step makes exactly one invocation,
\* whose operands are the existing source directories, each once, in the
\* configured order; a directory that does not exist is never passed; when
\* none exists the one invocation has no directory operand.  No invocation
\* is made when the step does not run.
C10_CppcheckInvocations ==
    prog = "analyze" =>
        /\ Ran("cppcheck") =>
              /\ Len(cppcheck_calls) = 1
              /\ OperandsPassed = env.existing_dirs
              /\ NoDuplicates(cppcheck_calls[1].operands)
              /\ \A j, k \in 1..Len(source_dirs) :
                    (j < k /\ {source_dirs[j], source_dirs[k]} \subseteq env.existing_dirs) =>
                       \E a, b \in 1..Len(cppcheck_calls[1].operands) :
                          /\ a < b
                          /\ cppcheck_calls[1].operands[a] = source_dirs[j]
                          /\ cppcheck_calls[1].operands[b] = source_dirs[k]
        /\ ~Ran("cppcheck") => cppcheck_calls = <<>>

C10_Witness ==
    /\ prog = "analyze" /\ Ran("cppcheck")
    /\ env.existing_dirs = {"SilicaEngine/src", "Fractura/src"}
    /\ cppcheck_calls[1].operands = <<"SilicaEngine/src", "Fractura/src">>
====
